---------------------------- MODULE Spec2Model ----------------------------
(***************************************************************************)
(* The spreadsheet import of the record-management API:                    *)
(*   app/api/utils.py   validate_header, extract_column_indices,           *)
(*                      process_row, parse_excel                           *)
(*   app/api/views.py   FileUploadView.post                                *)
(*   app/api/models.py  Record                                             *)
(*                                                                         *)
(* Python strings whose characters the code inspects (cells, file names)   *)
(* are sequences of one-character strings.  Column names, which the code   *)
(* only compares for equality, are TLA+ strings.                           *)
(***************************************************************************)
EXTENDS Integers, Sequences, FiniteSets, TLC

VARIABLES
    pc,              \* position of the running call / request
    header,          \* header row: the values of the cells of sheet row 1
    column_indices,  \* Column Index Map (a function on a set of names)
    row,             \* the data row process_row works on
    result,          \* outcome of the call under study
    file,            \* the upload of the request in progress
    records,         \* parse_excel's accumulating list
    rest,            \* data rows parse_excel has not yet iterated over
    trace,           \* pipeline stages entered by the request, in order
    store,           \* rows of the Record table, in insertion order
    store0,          \* the Record table when the request arrived
    response         \* HTTP response of the request

vars == <<pc, header, column_indices, row, result, file, records, rest,
          trace, store, store0, response>>

-----------------------------------------------------------------------------
(* Bounds of the explored inputs.                                          *)

MaxHeaderLen == 6
MaxCoordLen == 5
MaxTechParts == 3
MaxRows == 2
MaxStore == 2

-----------------------------------------------------------------------------
(* Python str operations on character sequences.                           *)

Whitespace == {" ", "\t"}

Digits == {"0", "1", "2", "3", "4", "5", "6", "7", "8", "9"}

UpperCase == <<"A","B","C","D","E","F","G","H","I","J","K","L","M",
               "N","O","P","Q","R","S","T","U","V","W","X","Y","Z">>

LowerCase == <<"a","b","c","d","e","f","g","h","i","j","k","l","m",
               "n","o","p","q","r","s","t","u","v","w","x","y","z">>

\* str.lower() on one character
LowerChar(c) ==
    IF \E i \in 1..26 : UpperCase[i] = c
    THEN LowerCase[CHOOSE i \in 1..26 : UpperCase[i] = c]
    ELSE c

\* str.lower()
Lower(s) == [i \in 1..Len(s) |-> LowerChar(s[i])]

RECURSIVE LStrip(_)
LStrip(s) ==
    IF s # <<>> /\ Head(s) \in Whitespace THEN LStrip(Tail(s)) ELSE s

RECURSIVE RStrip(_)
RStrip(s) ==
    IF s # <<>> /\ s[Len(s)] \in Whitespace
    THEN RStrip(SubSeq(s, 1, Len(s) - 1))
    ELSE s

\* str.strip()
Strip(s) == RStrip(LStrip(s))

\* str.split(sep): always at least one part; "" splits into [""]
RECURSIVE Split(_, _)
Split(s, sep) ==
    IF \E i \in 1..Len(s) : s[i] = sep
    THEN LET k == CHOOSE i \in 1..Len(s) :
                      s[i] = sep /\ \A j \in 1..(i - 1) : s[j] # sep
         IN  <<SubSeq(s, 1, k - 1)>> \o Split(SubSeq(s, k + 1, Len(s)), sep)
    ELSE <<s>>

DigitVal(c) ==
    CASE c = "0" -> 0 [] c = "1" -> 1 [] c = "2" -> 2 [] c = "3" -> 3
      [] c = "4" -> 4 [] c = "5" -> 5 [] c = "6" -> 6 [] c = "7" -> 7
      [] c = "8" -> 8 [] c = "9" -> 9

AllDigits(s) == \A i \in 1..Len(s) : s[i] \in Digits

RECURSIVE DigitsVal(_)
DigitsVal(s) ==
    IF s = <<>> THEN 0
    ELSE 10 * DigitsVal(SubSeq(s, 1, Len(s) - 1)) + DigitVal(s[Len(s)])

\* A decimal number m * 10^(-e) in lowest form (1.50 and 1.5 are one float).
RECURSIVE Decimal(_, _)
Decimal(m, e) ==
    IF e > 0 /\ m % 10 = 0 THEN Decimal(m \div 10, e - 1) ELSE [m |-> m, e |-> e]

NoNumber == [m |-> 0, e |-> 0]

\* float(s) for a str s over digits, ".", "-", "+", whitespace and letters
\* that spell none of inf, nan or an exponent: surrounding whitespace is
\* dropped, then [sign] digits [. digits] with at least one digit.
\* ok = FALSE stands for ValueError.
ParseFloat(s) ==
    LET t    == Strip(s)
        sgn  == t # <<>> /\ Head(t) \in {"-", "+"}
        u    == IF sgn THEN Tail(t) ELSE t
        ps   == Split(u, ".")
        ip   == ps[1]
        fp   == IF Len(ps) = 2 THEN ps[2] ELSE <<>>
        good == /\ Len(ps) <= 2
                /\ AllDigits(ip) /\ AllDigits(fp)
                /\ Len(ip) + Len(fp) > 0
        mag  == DigitsVal(ip \o fp)
    IN  IF good
        THEN [ok |-> TRUE,
              v  |-> Decimal(IF sgn /\ Head(t) = "-" THEN 0 - mag ELSE mag,
                             Len(fp))]
        ELSE [ok |-> FALSE, v |-> NoNumber]

\* int(s) for a str s over the same characters: whitespace dropped, then
\* [sign] digits+ .  ok = FALSE stands for ValueError.
ParseInt(s) ==
    LET t   == Strip(s)
        sgn == t # <<>> /\ Head(t) \in {"-", "+"}
        u   == IF sgn THEN Tail(t) ELSE t
    IN  IF u # <<>> /\ AllDigits(u)
        THEN [ok |-> TRUE,
              n  |-> IF sgn /\ Head(t) = "-" THEN 0 - DigitsVal(u)
                     ELSE DigitsVal(u)]
        ELSE [ok |-> FALSE, n |-> 0]

-----------------------------------------------------------------------------
(* Cell values as openpyxl hands them over: a str, an int or None.         *)

StrCell(s) == [t |-> "str", s |-> s, n |-> 0]
IntCell(n) == [t |-> "int", s |-> <<>>, n |-> n]
NoneCell == [t |-> "none", s |-> <<>>, n |-> 0]

\* Python truthiness of a cell value
Truthy(c) ==
    CASE c.t = "str" -> c.s # <<>>
      [] c.t = "int" -> c.n # 0
      [] OTHER -> FALSE

-----------------------------------------------------------------------------
(* utils.py: the fixed schema, Header Validator and Column Resolver.       *)

REQUIRED_COLUMNS == {"ne", "address", "coordinates", "technology", "status"}

\* A header cell holding a str, and an empty header cell (None).
NameCell(name) == [t |-> "str", v |-> name]
NoneHeaderCell == [t |-> "none", v |-> ""]

\* set(header)
HeaderSet(h) == {h[i] : i \in 1..Len(h)}

\* REQUIRED_COLUMNS - set(header)
MissingColumns(h) == {c \in REQUIRED_COLUMNS : NameCell(c) \notin HeaderSet(h)}

\* Mutant of HeaderComplete: status left out of the check.
HeaderComplete_WithoutStatus(h) ==
    \A c \in REQUIRED_COLUMNS \ {"status"} : NameCell(c) \in HeaderSet(h)

\* REQUIRED_COLUMNS.issubset(set(header))
HeaderComplete(h) == \A c \in REQUIRED_COLUMNS : NameCell(c) \in HeaderSet(h)

\* The orders in which iterating a Python set may yield its elements.
IterationOrders(S) ==
    {q \in [1..Cardinality(S) -> S] : \A x \in S : \E i \in DOMAIN q : q[i] = x}

Returned(v) == [kind |-> "ok", val |-> v]
Raised(exc, detail) == [kind |-> exc, val |-> detail]

\* validate_header(header): the outcomes the call can have.  The message
\* "Missing required columns: " + ", ".join(missing_columns) is kept as the
\* joined names in the order the set yields them.
validate_header(h) ==
    IF ~HeaderComplete(h)
    THEN {Raised("ValueError",
                 [text |-> "Missing required columns", names |-> q]) :
              q \in IterationOrders(MissingColumns(h))}
    ELSE {Returned("None")}

\* Mutant of ListIndex: the position of the last equal element.
ListIndex_Last(h, x) ==
    IF \E i \in 1..Len(h) : h[i] = x
    THEN Returned((CHOOSE i \in 1..Len(h) :
                       h[i] = x /\ \A j \in (i + 1)..Len(h) : h[j] # x) - 1)
    ELSE Raised("ValueError", "is not in list")

\* header.index(col): zero-based position of the first equal element;
\* ValueError when there is none.
ListIndex(h, x) ==
    IF \E i \in 1..Len(h) : h[i] = x
    THEN Returned((CHOOSE i \in 1..Len(h) :
                       h[i] = x /\ \A j \in 1..(i - 1) : h[j] # x) - 1)
    ELSE Raised("ValueError", "is not in list")

\* extract_column_indices(header)
extract_column_indices(h) ==
    IF \E c \in REQUIRED_COLUMNS : ListIndex(h, NameCell(c)).kind # "ok"
    THEN Raised("ValueError", "is not in list")
    ELSE Returned([c \in REQUIRED_COLUMNS |-> ListIndex(h, NameCell(c)).val])

-----------------------------------------------------------------------------
(* utils.py: Row Processor.                                                *)

S_gsm == <<"g", "s", "m">>
S_umts == <<"u", "m", "t", "s">>
S_lte == <<"l", "t", "e">>

\* row[column_indices[name]]: KeyError for a name the map lacks, IndexError
\* for a position outside the row (negative positions count from the end).
Lookup(r, ci, name) ==
    IF name \notin DOMAIN ci THEN Raised("KeyError", name)
    ELSE LET i == ci[name]
         IN  IF i >= Len(r) \/ i < 0 - Len(r)
             THEN Raised("IndexError", name)
             ELSE Returned(r[IF i >= 0 THEN i + 1 ELSE Len(r) + i + 1])

\* Mutant of ParseCoordinates: latitude and longitude taken from each
\* other's part.
ParseCoordinates_Swapped(r, ci) ==
    LET c == Lookup(r, ci, "coordinates")
    IN  IF c.kind # "ok" THEN c
        ELSE IF c.val.t # "str" THEN Raised("AttributeError", "split")
        ELSE LET coordinates == Split(c.val.s, ",")
                 lon == ParseFloat(Strip(coordinates[1]))
             IN  IF ~lon.ok THEN Raised("ValueError", "latitude")
                 ELSE IF Len(coordinates) < 2
                 THEN Raised("IndexError", "coordinates[1]")
                 ELSE LET lat == ParseFloat(Strip(coordinates[2]))
                      IN  IF ~lat.ok THEN Raised("ValueError", "longitude")
                          ELSE Returned([latitude  |-> lat.v,
                                         longitude |-> lon.v])

\* lines 69-71: coordinates = cell.split(","); float(coordinates[0].strip());
\* float(coordinates[1].strip())
ParseCoordinates(r, ci) ==
    LET c == Lookup(r, ci, "coordinates")
    IN  IF c.kind # "ok" THEN c
        ELSE IF c.val.t # "str" THEN Raised("AttributeError", "split")
        ELSE LET coordinates == Split(c.val.s, ",")
                 lat == ParseFloat(Strip(coordinates[1]))
             IN  IF ~lat.ok THEN Raised("ValueError", "latitude")
                 ELSE IF Len(coordinates) < 2
                 THEN Raised("IndexError", "coordinates[1]")
                 ELSE LET lon == ParseFloat(Strip(coordinates[2]))
                      IN  IF ~lon.ok THEN Raised("ValueError", "longitude")
                          ELSE Returned([latitude  |-> lat.v,
                                         longitude |-> lon.v])

\* Mutant of TechFlag: the parts are trimmed but not lower-cased.
TechFlag_CaseSensitive(tok, technologies) ==
    \E i \in 1..Len(technologies) : Strip(technologies[i]) = tok

\* "tok" in [tech.strip().lower() for tech in technologies]
TechFlag(tok, technologies) ==
    \E i \in 1..Len(technologies) : Lower(Strip(technologies[i])) = tok

\* lines 73-80: technologies and the three flags
ParseTechnologies(r, ci) ==
    LET c == Lookup(r, ci, "technology")
    IN  IF c.kind # "ok" THEN c
        ELSE IF Truthy(c.val) /\ c.val.t # "str"
        THEN Raised("AttributeError", "split")
        ELSE LET technologies ==
                     IF Truthy(c.val) THEN Split(c.val.s, ",") ELSE <<>>
             IN  Returned([gsm  |-> TechFlag(S_gsm, technologies),
                           umts |-> TechFlag(S_umts, technologies),
                           lte  |-> TechFlag(S_lte, technologies)])

\* int(x) for a cell value: a str is parsed, None is a TypeError
IntOf(c) ==
    CASE c.t = "int" -> Returned(c.n)
      [] c.t = "str" -> IF ParseInt(c.s).ok THEN Returned(ParseInt(c.s).n)
                        ELSE Raised("ValueError", "status")
      [] OTHER -> Raised("TypeError", "status")

\* lines 68-91: the body of the try block
RowBody(r, ci) ==
    LET co == ParseCoordinates(r, ci)
        te == ParseTechnologies(r, ci)
        ne == Lookup(r, ci, "ne")
        ad == Lookup(r, ci, "address")
        sc == Lookup(r, ci, "status")
    IN  IF co.kind # "ok" THEN co
        ELSE IF te.kind # "ok" THEN te
        ELSE IF ne.kind # "ok" THEN ne
        ELSE IF ad.kind # "ok" THEN ad
        ELSE IF sc.kind # "ok" THEN sc
        ELSE IF IntOf(sc.val).kind # "ok" THEN IntOf(sc.val)
        ELSE Returned([ne        |-> ne.val,
                       address   |-> ad.val,
                       latitude  |-> co.val.latitude,
                       longitude |-> co.val.longitude,
                       gsm       |-> te.val.gsm,
                       umts      |-> te.val.umts,
                       lte       |-> te.val.lte,
                       status    |-> IntOf(sc.val).val])

\* except (ValueError, AttributeError, IndexError)
RowHandled == {"ValueError", "AttributeError", "IndexError"}

\* process_row(row, column_indices): the record, or the exception raised.
\* The message f"Error processing row: {row} - {e}" is kept as its parts.
process_row(r, ci) ==
    LET b == RowBody(r, ci)
    IN  IF b.kind \in RowHandled
        THEN Raised("ValueError",
                    [text |-> "Error processing row", row |-> r,
                     cause |-> [exc |-> b.kind, at |-> b.val]])
        ELSE b

-----------------------------------------------------------------------------
(* Inputs of the row processor.                                            *)

\* All strings of at most n characters of an alphabet.
AllStrings(alphabet, n) == UNION {[1..k -> alphabet] : k \in 0..n}

\* ",".join(parts)
RECURSIVE Join(_)
Join(parts) ==
    IF Len(parts) = 0 THEN <<>>
    ELSE IF Len(parts) = 1 THEN parts[1]
    ELSE parts[1] \o <<",">> \o Join(Tail(parts))

CoordAlphabet == {"1", ".", "-", " ", ",", "x"}

\* Coordinates cells: every string of at most n characters, None, a number.
CoordCells(n) ==
    {StrCell(s) : s \in AllStrings(CoordAlphabet, n)}
        \cup {NoneCell, IntCell(1)}

TechPieces ==
    { <<"g","s","m">>, <<" ","G","S","M">>, <<"U","m","t","s"," ">>,
      <<"l","t","e">>, <<"\t","L","t","E">>, <<"5","g">>, <<"g","s">>, <<>> }

\* Technology cells: at most n comma-joined pieces, None, numbers.
TechCells(n) ==
    {StrCell(Join(q)) : q \in UNION {[1..k -> TechPieces] : k \in 1..n}}
        \cup {NoneCell, IntCell(0), IntCell(5)}

StatusCells ==
    { IntCell(1), IntCell(0), StrCell(<<"1">>), StrCell(<<" ","1","2"," ">>),
      StrCell(<<"-","3">>), StrCell(<<"a","b","c">>), StrCell(<<"1",".","5">>),
      StrCell(<<>>), NoneCell }

NeCells == { StrCell(<<"N","E","1">>), StrCell(<<" ","n","e"," ">>), NoneCell }

AddressCells == { StrCell(<<"A","d","d","r"," ","1">>), StrCell(<<>>) }

CoordSamples ==
    { StrCell(<<"4","8",".","8","5","6","6",","," ","2",".","3","5","2","2">>),
      StrCell(<<"1",",","2",",","3">>), StrCell(<<"1">>), StrCell(<<"x",",","1">>),
      StrCell(<<>>), NoneCell, IntCell(1) }

TechSamples ==
    { StrCell(<<"g","s","m",","," ","l","t","e">>), StrCell(<<>>), NoneCell,
      IntCell(5) }

\* The map extract_column_indices builds for the header
\* ne, address, coordinates, technology, status.
StdIndices ==
    [c \in REQUIRED_COLUMNS |->
        CASE c = "ne" -> 0 [] c = "address" -> 1 [] c = "coordinates" -> 2
          [] c = "technology" -> 3 [] c = "status" -> 4]

\* Maps a caller may hand to process_row: the standard one, one for columns
\* in another order, one pointing past the row, and maps lacking a name.
ColumnMaps ==
    { StdIndices,
      [c \in REQUIRED_COLUMNS |-> 4 - StdIndices[c]],
      [c \in REQUIRED_COLUMNS |-> StdIndices[c] + 1],
      [c \in REQUIRED_COLUMNS \ {"status"} |-> StdIndices[c]],
      [c \in REQUIRED_COLUMNS \ {"coordinates"} |-> StdIndices[c]] }

\* The row holding the given cells at the positions a map names (names the
\* map lacks, or positions past five cells, leave the default cell).
RowFor(ci, cells) ==
    [i \in 1..5 |->
        IF \E c \in DOMAIN ci : ci[c] = i - 1
        THEN cells[CHOOSE c \in DOMAIN ci : ci[c] = i - 1]
        ELSE NoneCell]

CellsOf(ne, ad, co, te, st) ==
    [c \in REQUIRED_COLUMNS |->
        CASE c = "ne" -> ne [] c = "address" -> ad [] c = "coordinates" -> co
          [] c = "technology" -> te [] c = "status" -> st]

GoodCoord == StrCell(<<"1",",","-","1",".","1">>)

\* Inputs of process_row: samples of every cell under every map.
SampleInputs ==
    {[ci |-> ci, cells |-> CellsOf(ne, ad, co, te, st)] :
        ci \in ColumnMaps, ne \in NeCells, ad \in AddressCells,
        co \in CoordSamples, te \in TechSamples, st \in StatusCells}

\* A row in the standard layout.
StdRow(ne, ad, co, te, st) == RowFor(StdIndices, CellsOf(ne, ad, co, te, st))

NotRun == [kind |-> "not run", val |-> "None"]

Idle ==
    /\ header = <<>>
    /\ file = "None"
    /\ records = <<>>
    /\ rest = <<>>
    /\ trace = <<>>
    /\ store = <<>>
    /\ store0 = <<>>
    /\ response = "None"

\* The inputs: the samples; every coordinates cell of at most MaxCoordLen
\* characters; every technology cell of at most MaxTechParts pieces.
InitRow ==
    /\ \/ \E x \in SampleInputs :
             /\ row = RowFor(x.ci, x.cells)
             /\ column_indices = x.ci
       \/ \E co \in CoordCells(MaxCoordLen) :
             /\ row = StdRow(StrCell(<<"N","E","1">>), StrCell(<<>>), co,
                             StrCell(<<"g","s","m">>), IntCell(1))
             /\ column_indices = StdIndices
       \/ \E ne \in NeCells, te \in TechCells(MaxTechParts) :
             /\ row = StdRow(ne, StrCell(<<>>), GoodCoord, te, IntCell(1))
             /\ column_indices = StdIndices
    /\ pc = "process_row"
    /\ result = NotRun
    /\ Idle

\* A call process_row(row, column_indices)
ProcessRow ==
    /\ pc = "process_row"
    /\ result' = process_row(row, column_indices)
    /\ pc' = "returned"
    /\ UNCHANGED <<header, column_indices, row, file, records, rest, trace,
                   store, store0, response>>

NextRow == ProcessRow

SpecRow == InitRow /\ [][NextRow]_vars

-----------------------------------------------------------------------------
(* Properties of the row processor (checked under SpecRow).                *)

RowReturned == pc = "returned"

\* The cells process_row reads, where the map and the row have them.
CellAt(name) == Lookup(row, column_indices, name)

\* C3: every failure inside process_row surfaces as the row-processing
\* ValueError carrying the row and the underlying cause; no other kind of
\* exception leaves process_row.  Stated for the maps the Column Resolver
\* builds (one entry per required name), where the claim is at its
\* strongest; a map lacking a name breaks it as well (KeyError).
C3_OnlyRowErrorsEscape ==
    (RowReturned /\ DOMAIN column_indices = REQUIRED_COLUMNS) =>
        \/ result.kind = "ok"
        \/ /\ result.kind = "ValueError"
           /\ result.val.text = "Error processing row"
           /\ result.val.row = row
           /\ result.val.cause.exc \in RowHandled

\* A part of the coordinates cell is usable when, trimmed, it reads as a
\* number.
UsablePart(parts, i) == i <= Len(parts) /\ ParseFloat(Strip(parts[i])).ok

\* C7 as stated: the cell is split on a comma into exactly two parts, the
\* first, trimmed and read as a number, being the latitude and the second
\* the longitude; a cell that is empty, does not split into exactly two
\* parts, or has a part that is not a number yields no record.
C7_ExactlyTwoParts ==
    RowReturned =>
        LET c == CellAt("coordinates")
            parts == Split(c.val.s, ",")
            usable == /\ c.kind = "ok" /\ c.val.t = "str"
                      /\ Len(parts) = 2
                      /\ UsablePart(parts, 1) /\ UsablePart(parts, 2)
        IN  /\ ~usable => result.kind # "ok"
            /\ result.kind = "ok" =>
                  /\ result.val.latitude = ParseFloat(Strip(parts[1])).v
                  /\ result.val.longitude = ParseFloat(Strip(parts[2])).v

\* C7 amended: the cell is split on commas; the first part, trimmed and
\* read as a number, is the latitude and the second the longitude; parts
\* after the second are ignored.  A cell that is not a string, is empty,
\* has fewer than two parts, or whose first or second part is not a number
\* yields no record.
C7_FirstTwoParts ==
    RowReturned =>
        LET c == CellAt("coordinates")
            parts == Split(c.val.s, ",")
            usable == /\ c.kind = "ok" /\ c.val.t = "str"
                      /\ UsablePart(parts, 1) /\ UsablePart(parts, 2)
        IN  /\ ~usable => result.kind # "ok"
            /\ result.kind = "ok" =>
                  /\ result.val.latitude = ParseFloat(Strip(parts[1])).v
                  /\ result.val.longitude = ParseFloat(Strip(parts[2])).v

\* C7 witness: a record was produced from a three-part coordinates cell
\* whose first two parts differ.
C7_Witness ==
    /\ RowReturned /\ result.kind = "ok"
    /\ Len(Split(CellAt("coordinates").val.s, ",")) = 3
    /\ result.val.latitude # result.val.longitude

\* A part p is the token tok up to surrounding whitespace and letter case.
IsToken(p, tok) ==
    \E l \in 0..Len(p) :
        /\ l + Len(tok) <= Len(p)
        /\ \A k \in 1..Len(p) :
              IF k <= l \/ k > l + Len(tok)
              THEN p[k] \in Whitespace
              ELSE LowerChar(p[k]) = tok[k - l]

\* tok is one of the comma-separated parts of the string s.
TokenOccurs(s, tok) ==
    \E a \in 1..(Len(s) + 1) : \E b \in (a - 1)..Len(s) :
        /\ a = 1 \/ s[a - 1] = ","
        /\ b = Len(s) \/ s[b + 1] = ","
        /\ \A k \in a..b : s[k] # ","
        /\ IsToken(SubSeq(s, a, b), tok)

\* Everything but the technology cell parses.
OtherFieldsParse ==
    /\ ParseCoordinates(row, column_indices).kind = "ok"
    /\ CellAt("technology").kind = "ok"
    /\ CellAt("ne").kind = "ok"
    /\ CellAt("address").kind = "ok"
    /\ CellAt("status").kind = "ok"
    /\ IntOf(CellAt("status").val).kind = "ok"

\* C8: on a row that otherwise parses and whose technology cell is a string
\* or empty, a record is produced whatever tokens the cell holds; each of
\* gsm, umts, lte is true exactly when that token is one of the cell's
\* comma-separated parts up to whitespace and case (never for an empty or
\* null cell); ne and address are the row's cells unchanged.
C8_TechnologyFlags ==
    RowReturned =>
        LET te == CellAt("technology").val
            has(tok) == te.t = "str" /\ te.s # <<>> /\ TokenOccurs(te.s, tok)
        IN  /\ (OtherFieldsParse /\ te.t \in {"str", "none"})
                   => result.kind = "ok"
            /\ result.kind = "ok" =>
                  /\ result.val.gsm = has(S_gsm)
                  /\ result.val.umts = has(S_umts)
                  /\ result.val.lte = has(S_lte)
                  /\ result.val.ne = CellAt("ne").val
                  /\ result.val.address = CellAt("address").val

\* C8 witness: a record with gsm and lte set and umts clear, from a cell
\* holding an upper-case, padded token and an unrecognized one, with an ne
\* cell that has surrounding whitespace.
C8_Witness ==
    /\ RowReturned /\ result.kind = "ok"
    /\ result.val.gsm /\ result.val.lte /\ ~result.val.umts
    /\ CellAt("technology").val.s =
           <<" ","G","S","M",",","5","g",",","\t","L","t","E">>
    /\ result.val.ne = StrCell(<<" ","n","e"," ">>)

-----------------------------------------------------------------------------
(* Header Validator and Column Resolver on every header (SpecHeader).      *)

HeaderCells ==
    {NameCell(c) : c \in REQUIRED_COLUMNS} \cup {NameCell("NE"), NoneHeaderCell}

\* Every header of at most n cells.
Headers(n) == UNION {[1..k -> HeaderCells] : k \in 0..n}

InitHeader ==
    /\ header \in Headers(MaxHeaderLen)
    /\ pc = "validate_header"
    /\ result = NotRun
    /\ column_indices = <<>>
    /\ row = <<>>
    /\ file = "None"
    /\ records = <<>>
    /\ rest = <<>>
    /\ trace = <<>>
    /\ store = <<>>
    /\ store0 = <<>>
    /\ response = "None"

\* A call validate_header(header)
ValidateHeader ==
    /\ pc = "validate_header"
    /\ result' \in validate_header(header)
    /\ pc' = IF result'.kind = "ok" THEN "extract_column_indices" ELSE "raised"
    /\ UNCHANGED <<header, column_indices, row, file, records, rest, trace,
                   store, store0, response>>

\* A call extract_column_indices(header) on a header that passed
ExtractColumnIndices ==
    /\ pc = "extract_column_indices"
    /\ result' = extract_column_indices(header)
    /\ column_indices' = IF result'.kind = "ok" THEN result'.val ELSE <<>>
    /\ pc' = IF result'.kind = "ok" THEN "resolved" ELSE "raised"
    /\ UNCHANGED <<header, row, file, records, rest, trace, store, store0,
                   response>>

NextHeader == ValidateHeader \/ ExtractColumnIndices

SpecHeader == InitHeader /\ [][NextHeader]_vars

-----------------------------------------------------------------------------
(* Properties of the header stages (checked under SpecHeader).             *)

Occurs(name) == \E i \in 1..Len(header) : header[i] = NameCell(name)

AllFivePresent ==
    /\ Occurs("ne") /\ Occurs("address") /\ Occurs("coordinates")
    /\ Occurs("technology") /\ Occurs("status")

HeaderPassed == pc \in {"extract_column_indices", "resolved"}

\* C4: validate_header returns normally exactly when each of the five
\* required names occurs at least once in the header, whatever the order,
\* extra columns, duplicates and empty cells; otherwise it raises the
\* validation error.
C4_ValidateIffAllPresent ==
    pc # "validate_header" =>
        /\ HeaderPassed <=> AllFivePresent
        /\ pc = "raised" =>
              /\ result.kind = "ValueError"
              /\ result.val.text = "Missing required columns"

\* C4 witness: a six-cell header that passed although status comes first,
\* ne is duplicated and an empty cell is present.
C4_Witness ==
    /\ pc = "extract_column_indices"
    /\ header[1] = NameCell("status")
    /\ \E i, j \in 1..Len(header) :
          i # j /\ header[i] = NameCell("ne") /\ header[j] = NameCell("ne")

\* C5: the validation error lists exactly the missing required names, each
\* once, and for a header missing status and technology the message is
\* "Missing required columns: status, technology".
C5_MessageNamesMissing ==
    (pc = "raised" /\ result.val.text = "Missing required columns") =>
        LET names == result.val.names
        IN  /\ {names[i] : i \in 1..Len(names)} =
                   {c \in REQUIRED_COLUMNS : ~Occurs(c)}
            /\ \A i, j \in 1..Len(names) : names[i] = names[j] => i = j
            /\ ({c \in REQUIRED_COLUMNS : ~Occurs(c)} = {"status", "technology"}
                   => names = <<"status", "technology">>)

\* C6: for a header that passed validation, extract_column_indices returns
\* a map on exactly the five required names that sends each name to the
\* zero-based position of its first occurrence, and it never fails.
C6_FirstOccurrence ==
    /\ pc = "resolved" =>
          /\ DOMAIN column_indices = REQUIRED_COLUMNS
          /\ \A c \in REQUIRED_COLUMNS :
                /\ column_indices[c] \in 0..(Len(header) - 1)
                /\ header[column_indices[c] + 1] = NameCell(c)
                /\ \A j \in 1..column_indices[c] : header[j] # NameCell(c)
    /\ pc = "raised" => ~AllFivePresent

\* C6 witness: a resolved header that does not start with ne, in which ne
\* occurs twice and is mapped to the earlier position.
C6_Witness ==
    /\ pc = "resolved"
    /\ header[1] = NameCell("status")
    /\ column_indices["ne"] = 1
    /\ \E j \in 3..Len(header) : header[j] = NameCell("ne")

-----------------------------------------------------------------------------
(* views.py: FileUploadView.post around utils.py: parse_excel.             *)
(* One request is handled at a time, from its arrival to its response; the *)
(* actions below are the consecutive stages of that one synchronous call.  *)

SUPPORTED_EXTENSIONS ==
    { <<".","x","l","s","x">>, <<".","x","l","s","m">>, <<".","x","l","t","x">> }

\* rfind: the last position of character c in s, 0 when there is none
LastIndexOf(s, c) ==
    IF \E i \in 1..Len(s) : s[i] = c
    THEN CHOOSE i \in 1..Len(s) : s[i] = c /\ \A j \in (i + 1)..Len(s) : s[j] # c
    ELSE 0

\* os.path.splitext(name)[1]: the text from the last dot on, provided the
\* dot follows the last separator and some character other than a dot
\* stands between them; otherwise empty.
SplitExt(name) ==
    LET sepIndex == LastIndexOf(name, "/")
        dotIndex == LastIndexOf(name, ".")
    IN  IF dotIndex > sepIndex
           /\ \E k \in (sepIndex + 1)..(dotIndex - 1) : name[k] # "."
        THEN SubSeq(name, dotIndex, Len(name))
        ELSE <<>>

\* file_extension = os.path.splitext(file.name)[1].lower()
FileExtension(name) == Lower(SplitExt(name))

\* Mutant of Unsupported: any dotted part of the name may be the extension.
Unsupported_AnyPart(name) ==
    ~\E e \in SUPPORTED_EXTENSIONS :
        \E i \in 2..Len(Split(name, ".")) :
            <<".">> \o Lower(Split(name, ".")[i]) = e

\* file_extension not in self.SUPPORTED_EXTENSIONS
Unsupported(name) == FileExtension(name) \notin SUPPORTED_EXTENSIONS

InvalidFileMessage == "The uploaded file is not a valid or supported Excel file."

\* Record(**record) as the table row it becomes: status is a CharField
\* (models.py), so the saved value is the text of the integer.
RecordRow(rec) ==
    [ne |-> rec.ne.s, address |-> rec.address.s,
     latitude |-> rec.latitude, longitude |-> rec.longitude,
     gsm |-> rec.gsm, umts |-> rec.umts, lte |-> rec.lte,
     status |-> ToString(rec.status)]

\* ne and address are columns without null=True: a None value is refused
\* by the database (IntegrityError).
Insertable(rec) == rec.ne.t # "none" /\ rec.address.t # "none"

\* [Record(**record) for record in records]
RecordRows(recs) == [i \in 1..Len(recs) |-> RecordRow(recs[i])]

-----------------------------------------------------------------------------
(* Uploads.                                                                *)

FileNames ==
    { <<"a",".","x","l","s","x">>, <<"a",".","X","l","s","X">>,
      <<"a",".","x","l","s","m">>, <<"a",".","x","l","t","x">>,
      <<"a",".","x","l","s">>, <<"a",".","t","x","t">>,
      <<"a",".","x","l","s","x",".","t","x","t">>,
      <<".","x","l","s","x">>, <<"a">> }

StdHeader ==
    <<NameCell("ne"), NameCell("address"), NameCell("coordinates"),
      NameCell("technology"), NameCell("status")>>

SampleHeaders ==
    { StdHeader,
      <<NameCell("NE"), NameCell("status"), NameCell("technology"),
        NameCell("coordinates"), NoneHeaderCell, NameCell("address"),
        NameCell("ne"), NameCell("status")>>,
      <<NameCell("ne"), NameCell("address"), NameCell("coordinates")>> }

SampleCells ==
    { CellsOf(StrCell(<<"N","E","1">>), StrCell(<<"A","d","d","r"," ","1">>),
              StrCell(<<"4","8",".","8","5","6","6",","," ","2",".","3","5","2","2">>),
              StrCell(<<"g","s","m",","," ","l","t","e">>), IntCell(1)),
      CellsOf(StrCell(<<"N","E","2">>), StrCell(<<>>), GoodCoord,
              NoneCell, StrCell(<<" ","1","2"," ">>)),
      CellsOf(StrCell(<<"N","E","3">>), StrCell(<<>>), StrCell(<<"1">>),
              StrCell(<<"g","s","m">>), IntCell(1)),
      CellsOf(StrCell(<<"N","E","4">>), StrCell(<<>>), GoodCoord,
              StrCell(<<"u","m","t","s">>), NoneCell),
      CellsOf(NoneCell, StrCell(<<>>), GoodCoord, StrCell(<<>>), IntCell(0)) }

\* A sheet row under header h: as wide as the header, each required column
\* holding its cell (iter_rows yields every row at the sheet's full width).
SheetRow(h, cells) ==
    [i \in 1..Len(h) |->
        IF h[i].t = "str" /\ h[i].v \in REQUIRED_COLUMNS THEN cells[h[i].v]
        ELSE NoneCell]

Sheets(n) ==
    {[header |-> h, rows |-> [i \in 1..k |-> SheetRow(h, q[i])]] :
        h \in SampleHeaders,
        k \in 0..n,
        q \in [1..n -> SampleCells]}

\* The sheet that accompanies the sheet under study in a two-sheet
\* workbook: one data row, whose coordinates do not parse.
CompanionSheet ==
    [header |-> StdHeader,
     rows |-> <<SheetRow(StdHeader,
                  CellsOf(StrCell(<<"N","E","9">>), StrCell(<<>>),
                          StrCell(<<"x">>), StrCell(<<>>), IntCell(1)))>>]

\* Workbooks: the sheets in tab order and the number of the active tab
\* (the tab selected when the workbook was saved), which wb.active returns.
Workbooks(n) ==
    {[sheets |-> <<s>>, active |-> 1] : s \in Sheets(n)}
    \cup
    {[sheets |-> <<s, CompanionSheet>>, active |-> a] :
        s \in Sheets(n), a \in {1, 2}}
    \cup
    {[sheets |-> <<CompanionSheet, s>>, active |-> a] :
        s \in Sheets(n), a \in {1, 2}}

\* What openpyxl.load_workbook does with the uploaded file object: it
\* returns the workbook, raises InvalidFileException, or raises another
\* exception (zipfile.BadZipFile for bytes that are no zip archive).
Unreadable == {"InvalidFileException", "BadZipFile"}

\* The request's upload before its bytes are read: whether the file field
\* is there, and the file name.
Uploads ==
    {[present |-> TRUE, name |-> nm, opens |-> "unread", sheets |-> <<>>,
      active |-> 0] : nm \in FileNames}
    \cup
    {[present |-> FALSE, name |-> <<>>, opens |-> "unread", sheets |-> <<>>,
      active |-> 0]}

\* wb.active
ActiveSheet(f) == f.sheets[f.active]

InitUpload ==
    /\ pc = "idle"
    /\ file = "None"
    /\ header = <<>>
    /\ column_indices = <<>>
    /\ row = <<>>
    /\ result = NotRun
    /\ records = <<>>
    /\ rest = <<>>
    /\ trace = <<>>
    /\ store = <<>>
    /\ store0 = <<>>
    /\ response = "None"

Respond(code, body) == [status |-> code, body |-> body]

\* post, lines 69-81: a request arrives; the serializer and the extension
\* check answer it at once or let it through to parse_excel.
Post ==
    /\ pc = "idle"
    /\ \E f \in Uploads :
          /\ file' = f
          /\ IF ~f.present
             THEN /\ response' = Respond(400, [file |-> "No file was submitted."])
                  /\ pc' = "responded"
             ELSE IF Unsupported(f.name)
             THEN /\ response' = Respond(400, [error |-> "Unsupported file format"])
                  /\ pc' = "responded"
             ELSE /\ response' = "None"
                  /\ pc' = "load_workbook"
    /\ store0' = store
    /\ UNCHANGED <<header, column_indices, row, result, records, rest, trace,
                   store>>

\* parse_excel, lines 112-115: the bytes are a workbook w; the header is
\* row 1 of its active sheet and the loop will run over the rows from 2 on.
OpenWorkbook(w) ==
    /\ file' = [file EXCEPT !.opens = "workbook", !.sheets = w.sheets,
                            !.active = w.active]
    /\ header' = ActiveSheet(w).header
    /\ rest' = ActiveSheet(w).rows
    /\ pc' = "validate_header"
    /\ UNCHANGED result

\* parse_excel, lines 112 and 125-126: load_workbook raises exception exc;
\* only InvalidFileException is turned into the invalid-file ValueError.
FailToOpen(exc) ==
    /\ file' = [file EXCEPT !.opens = exc]
    /\ result' = IF exc = "InvalidFileException"
                  THEN Raised("ValueError", InvalidFileMessage)
                  ELSE Raised(exc, "load_workbook")
    /\ pc' = "raised"
    /\ UNCHANGED <<header, rest>>

\* parse_excel, lines 112-115 and 125-126: the upload's bytes are read
LoadWorkbook ==
    /\ pc = "load_workbook"
    /\ trace' = Append(trace, "load_workbook")
    /\ \/ \E w \in Workbooks(MaxRows) :
             /\ Len(store) + Len(ActiveSheet(w).rows) <= MaxStore
             /\ OpenWorkbook(w)
       \/ \E exc \in Unreadable : FailToOpen(exc)
    /\ UNCHANGED <<column_indices, row, records, store, store0, response>>

\* parse_excel, line 116
PipelineValidate ==
    /\ pc = "validate_header"
    /\ trace' = Append(trace, "validate_header")
    /\ \E out \in validate_header(header) :
          IF out.kind = "ok"
          THEN pc' = "extract_column_indices" /\ UNCHANGED result
          ELSE pc' = "raised" /\ result' = out
    /\ UNCHANGED <<header, column_indices, row, file, records, rest, store,
                   store0, response>>

\* parse_excel, lines 117-119
PipelineResolve ==
    /\ pc = "extract_column_indices"
    /\ trace' = Append(trace, "extract_column_indices")
    /\ LET out == extract_column_indices(header)
       IN  IF out.kind = "ok"
           THEN /\ column_indices' = out.val
                /\ pc' = "rows"
                /\ UNCHANGED result
           ELSE /\ result' = out
                /\ pc' = "raised"
                /\ UNCHANGED column_indices
    /\ records' = <<>>
    /\ UNCHANGED <<header, row, file, rest, store, store0, response>>

\* Mutant of AppendRecord: a row that fails is skipped and the loop goes on.
AppendRecord_SkipBadRow(out) ==
    /\ records' = IF out.kind = "ok" THEN Append(records, out.val) ELSE records
    /\ rest' = Tail(rest)
    /\ pc' = "rows"
    /\ UNCHANGED result

\* line 121: records.append(process_row(row, column_indices)), out being
\* what process_row did: the loop goes on, or the exception leaves it.
AppendRecord(out) ==
    IF out.kind = "ok"
    THEN /\ records' = Append(records, out.val)
         /\ rest' = Tail(rest)
         /\ pc' = "rows"
         /\ UNCHANGED result
    ELSE /\ result' = out
         /\ pc' = "raised"
         /\ UNCHANGED <<records, rest>>

\* parse_excel, lines 120-121: one turn of the loop over the data rows
PipelineRow ==
    /\ pc = "rows"
    /\ rest # <<>>
    /\ trace' = Append(trace, "process_row")
    /\ row' = Head(rest)
    /\ AppendRecord(process_row(Head(rest), column_indices))
    /\ UNCHANGED <<header, column_indices, file, store, store0, response>>

\* parse_excel, line 123: return records
PipelineReturn ==
    /\ pc = "rows"
    /\ rest = <<>>
    /\ result' = Returned(records)
    /\ pc' = "bulk_create"
    /\ UNCHANGED <<header, column_indices, row, file, records, rest, trace,
                   store, store0, response>>

\* post, lines 85-90: bulk_create and the 201 response; an insert the
\* database refuses is not a ValueError and leaves post unhandled.
BulkCreate ==
    /\ pc = "bulk_create"
    /\ IF \A i \in 1..Len(result.val) : Insertable(result.val[i])
       THEN /\ store' = store \o RecordRows(result.val)
            /\ response' = Respond(201,
                  [message |-> "File uploaded and data saved successfully."])
       ELSE /\ store' = store
            /\ response' = Respond(500, [unhandled |-> "IntegrityError"])
    /\ pc' = "responded"
    /\ UNCHANGED <<header, column_indices, row, result, file, records, rest,
                   trace, store0>>

\* post, lines 91-95: except ValueError; any other exception is unhandled
PipelineRaised ==
    /\ pc = "raised"
    /\ response' = IF result.kind = "ValueError"
                   THEN Respond(400, [error |-> result.val])
                   ELSE Respond(500, [unhandled |-> result.kind])
    /\ pc' = "responded"
    /\ UNCHANGED <<header, column_indices, row, result, file, records, rest,
                   trace, store, store0>>

\* The response is sent and the request is over: post's locals are gone.
Finish ==
    /\ pc = "responded"
    /\ pc' = "idle"
    /\ file' = "None"
    /\ header' = <<>>
    /\ column_indices' = <<>>
    /\ row' = <<>>
    /\ result' = NotRun
    /\ records' = <<>>
    /\ rest' = <<>>
    /\ trace' = <<>>
    /\ store0' = <<>>
    /\ response' = "None"
    /\ UNCHANGED store

NextUpload ==
    \/ Post
    \/ LoadWorkbook
    \/ PipelineValidate
    \/ PipelineResolve
    \/ PipelineRow
    \/ PipelineReturn
    \/ BulkCreate
    \/ PipelineRaised
    \/ Finish

SpecUpload == InitUpload /\ [][NextUpload]_vars

-----------------------------------------------------------------------------
(* Properties of parse_excel and of post (checked under SpecUpload).       *)

\* How often process_row has been entered by the request.
RowsEntered == Cardinality({i \in 1..Len(trace) : trace[i] = "process_row"})

\* parse_excel is all-or-nothing over the data rows rs: it returns a list
\* exactly when every row of rs is processed successfully, and the list
\* then holds the record of each row, in row order; when a row fails, the
\* call raises what the first failing row raised, after processing only the
\* rows before it, and returns no list.
AllOrNothingOver(rs) ==
    LET RowOutcome(i) == process_row(rs[i], column_indices)
    IN  /\ pc = "bulk_create" =>
              /\ result.kind = "ok"
              /\ Len(result.val) = Len(rs)
              /\ \A i \in 1..Len(rs) :
                    /\ RowOutcome(i).kind = "ok"
                    /\ result.val[i] = RowOutcome(i).val
        /\ (pc = "raised" /\ RowsEntered > 0) =>
              /\ RowsEntered <= Len(rs)
              /\ RowOutcome(RowsEntered).kind # "ok"
              /\ \A i \in 1..(RowsEntered - 1) : RowOutcome(i).kind = "ok"
              /\ result = RowOutcome(RowsEntered)

PipelineFailed == trace # <<>> /\ result.kind \notin {"ok", "not run"}

\* C2: a request whose pipeline run failed is answered 400 with an error
\* message and leaves the table as it was; 201 is answered only when the
\* whole file parsed, and the table then has gained exactly the records of
\* the file, in order.
C2_FailureIs400 ==
    pc = "responded" =>
        /\ PipelineFailed =>
              /\ response.status = 400
              /\ DOMAIN response.body = {"error"}
              /\ store = store0
        /\ response.status = 201 =>
              /\ result.kind = "ok"
              /\ Len(result.val) = Len(ActiveSheet(file).rows)
              /\ store = store0 \o RecordRows(result.val)

\* The stages in the order parse_excel enters them.
StageOrder ==
    \A i \in 1..Len(trace) :
        trace[i] = CASE i = 1 -> "load_workbook"
                     [] i = 2 -> "validate_header"
                     [] i = 3 -> "extract_column_indices"
                     [] OTHER -> "process_row"

HasSupportedExtension(name) ==
    \E e \in SUPPORTED_EXTENSIONS :
        LET k == Len(name) - Len(e) + 1
        IN  /\ k >= 2
            /\ \A i \in 1..Len(e) : LowerChar(name[k + i - 1]) = e[i]
            /\ \E j \in 1..(k - 1) :
                  name[j] # "." /\ \A i \in j..(k - 1) : name[i] # "/"

\* C10: an upload whose extension is not .xlsx, .xlsm or .xltx in any
\* letter case is answered 400 "Unsupported file format"; parse_excel is
\* not called for it and the table is unchanged.
C10_UnsupportedRejected ==
    (pc # "idle" /\ file.present /\ ~HasSupportedExtension(file.name)) =>
        /\ pc = "responded"
        /\ response = Respond(400, [error |-> "Unsupported file format"])
        /\ trace = <<>>
        /\ result = NotRun
        /\ store = store0

\* C10 witness: a.xlsx.txt was rejected while the table held records of an
\* earlier upload.
C10_Witness ==
    /\ pc = "responded"
    /\ file.name = <<"a",".","x","l","s","x",".","t","x","t">>
    /\ response.status = 400
    /\ store # <<>>
    /\ store = store0

=============================================================================
